---- MODULE Spec2Model ----
(***************************************************************************)
(* Shellmind: the interactive turn loop of ShellmindCLI::start             *)
(* (crates/shellmind/src/main.rs) together with the configuration, tool    *)
(* registry, tools and backend clients of crates/core.                     *)
(*                                                                         *)
(* Texts (user input, backend replies, commands, file contents) are        *)
(* sequences of one-character strings, so that trimming, the newline test  *)
(* and the tool-call regex are computed character by character.            *)
(***************************************************************************)
EXTENDS Integers, Sequences, FiniteSets, TLC

(***************************************************************************)
(* Bounds                                                                  *)
(***************************************************************************)
\* number of turns (non-empty, non-exit inputs) explored in one session
MaxTurns == 2
\* number of turns of the sessions that try every reply
MaxToolTurns == 1
\* register calls made on one registry
MaxRegistered == 2
\* entries of a listed directory
MaxEntries == 3
\* number of turns of the sessions in which what a turn awaits returns
MaxLiveTurns == 1

(***************************************************************************)
(* Option / Result values                                                  *)
(***************************************************************************)
None == [some |-> FALSE]
Some(x) == [some |-> TRUE, val |-> x]
Ok(x) == [ok |-> TRUE, val |-> x]
Err(e) == [ok |-> FALSE, err |-> e]

(***************************************************************************)
(* Text literals                                                           *)
(***************************************************************************)
\* "Okay, I'm ready. What can I help you with?"
ReadyReply ==
    <<"O","k","a","y",","," ","I","'","m"," ","r","e","a","d","y","."," ","W","h","a","t"," ","c","a","n"," ","I"," ","h","e","l","p"," ","y","o","u"," ","w","i","t","h","?">>
\* the configured system prompt (config.system_prompt); its content is free
system_prompt ==
    <<"Y","o","u"," ","a","r","e"," ","S","h","e","l","l","m","i","n","d">>
\* "No command generated"
NoCommandGenerated ==
    <<"N","o"," ","c","o","m","m","a","n","d"," ","g","e","n","e","r","a","t","e","d">>
\* "exit"
ExitToken ==
    <<"e","x","i","t">>

\* tool names, crates/core/src/tools.rs
n_read_file ==
    <<"r","e","a","d","_","f","i","l","e">>
n_write_file ==
    <<"w","r","i","t","e","_","f","i","l","e">>
n_edit_file ==
    <<"e","d","i","t","_","f","i","l","e">>
n_list_directory ==
    <<"l","i","s","t","_","d","i","r","e","c","t","o","r","y">>
n_search_file_content ==
    <<"s","e","a","r","c","h","_","f","i","l","e","_","c","o","n","t","e","n","t">>
n_glob ==
    <<"g","l","o","b">>
n_run_shell_command ==
    <<"r","u","n","_","s","h","e","l","l","_","c","o","m","m","a","n","d">>
n_web_fetch ==
    <<"w","e","b","_","f","e","t","c","h">>
n_google_web_search ==
    <<"g","o","o","g","l","e","_","w","e","b","_","s","e","a","r","c","h">>
n_save_memory ==
    <<"s","a","v","e","_","m","e","m","o","r","y">>
n_read_many_files ==
    <<"r","e","a","d","_","m","a","n","y","_","f","i","l","e","s">>
\* a name no tool has
n_frobnicate ==
    <<"f","r","o","b","n","i","c","a","t","e">>

\* argument spans of tool calls
\* {"path":"."}
a_path_dot ==
    <<"{","\"","p","a","t","h","\"",":","\"",".","\"","}">>
\* {"path":"/x"}
a_path_x ==
    <<"{","\"","p","a","t","h","\"",":","\"","/","x","\"","}">>
\* {"path":"/x","content":"y"}
a_write ==
    <<"{","\"","p","a","t","h","\"",":","\"","/","x","\"",",","\"","c","o","n","t","e","n","t","\"",":","\"","y","\"","}">>
\* {"file_path":"/x","old_string":"y","new_string":"z"}
a_edit ==
    <<"{","\"","f","i","l","e","_","p","a","t","h","\"",":","\"","/","x","\"",",","\"","o","l","d","_","s","t","r","i","n","g","\"",":","\"","y","\"",",","\"","n","e","w","_","s","t","r","i","n","g","\"",":","\"","z","\"","}">>
\* {"pattern":"*"}
a_pattern ==
    <<"{","\"","p","a","t","t","e","r","n","\"",":","\"","*","\"","}">>
\* {"command":"ls"}
a_command ==
    <<"{","\"","c","o","m","m","a","n","d","\"",":","\"","l","s","\"","}">>
\* {"url":"u"}
a_url ==
    <<"{","\"","u","r","l","\"",":","\"","u","\"","}">>
\* {"query":"q"}
a_query ==
    <<"{","\"","q","u","e","r","y","\"",":","\"","q","\"","}">>
\* {"fact":"f"}
a_fact ==
    <<"{","\"","f","a","c","t","\"",":","\"","f","\"","}">>
\* {"paths":["/x"]}
a_paths ==
    <<"{","\"","p","a","t","h","s","\"",":","[","\"","/","x","\"","]","}">>
\* {"paths":[1]}
a_paths_num ==
    <<"{","\"","p","a","t","h","s","\"",":","[","1","]","}">>
\* {}
a_empty_obj ==
    <<"{","}">>
\* oops   (not JSON)
a_oops ==
    <<"o","o","p","s">>

\* shell command lines
\* rm -rf /tmp/test
c_rm ==
    <<"r","m"," ","-","r","f"," ","/","t","m","p","/","t","e","s","t">>
\* ls
c_ls ==
    <<"l","s">>

\* file paths and contents
p_x == <<"/","x">>
p_dot == <<".">>
t_y == <<"y">>
t_z == <<"z">>

(***************************************************************************)
(* Characters and string functions                                         *)
(***************************************************************************)
LowerLetters ==
    {"a","b","c","d","e","f","g","h","i","j","k","l","m",
     "n","o","p","q","r","s","t","u","v","w","x","y","z"}
UpperLetters ==
    {"A","B","C","D","E","F","G","H","I","J","K","L","M",
     "N","O","P","Q","R","S","T","U","V","W","X","Y","Z"}
\* the class [a-zA-Z_] of tool_call_regex
NameChars == LowerLetters \cup UpperLetters \cup {"_"}
\* char::is_whitespace on the characters used here
Whitespace == {" ", "\t", "\n", "\r"}

LowerSeq ==
    <<"a","b","c","d","e","f","g","h","i","j","k","l","m",
      "n","o","p","q","r","s","t","u","v","w","x","y","z">>
UpperSeq ==
    <<"A","B","C","D","E","F","G","H","I","J","K","L","M",
      "N","O","P","Q","R","S","T","U","V","W","X","Y","Z">>

\* u8::to_ascii_lowercase
to_ascii_lowercase(c) ==
    IF c \in UpperLetters
    THEN LowerSeq[CHOOSE i \in 1..26 : UpperSeq[i] = c]
    ELSE c

\* the letter case counts
eq_case_sensitive(s, t) == s = t

\* str::eq_ignore_ascii_case
eq_ignore_ascii_case(s, t) ==
    /\ Len(s) = Len(t)
    /\ \A i \in 1..Len(s) : to_ascii_lowercase(s[i]) = to_ascii_lowercase(t[i])

\* str::trim: drops the leading and the trailing whitespace
trim(s) ==
    LET keep == {i \in 1..Len(s) : s[i] \notin Whitespace}
    IN  IF keep = {} THEN <<>>
        ELSE LET lo == CHOOSE i \in keep : \A j \in keep : i <= j
                 hi == CHOOSE i \in keep : \A j \in keep : j <= i
             IN  SubSeq(s, lo, hi)

\* starts_with in place of contains
contains_newline_at_start(s) == s # <<>> /\ s[1] = "\n"

\* str::contains('\n')
contains_newline(s) == \E i \in 1..Len(s) : s[i] = "\n"

\* Vec::contains
contains(v, x) == \E i \in 1..Len(v) : v[i] = x

\* str::replace: every non-overlapping occurrence of old, left to right
RECURSIVE replace(_, _, _)
replace(s, old, new) ==
    IF old = <<>>
    THEN IF s = <<>> THEN new
         ELSE new \o <<Head(s)>> \o replace(Tail(s), old, new)
    ELSE IF Len(s) < Len(old) THEN s
    ELSE IF SubSeq(s, 1, Len(old)) = old
         THEN new \o replace(SubSeq(s, Len(old) + 1, Len(s)), old, new)
         ELSE <<Head(s)>> \o replace(Tail(s), old, new)

(***************************************************************************)
(* tool_call_regex: a name of letters and underscores, an opening         *)
(* parenthesis, any characters but newline, a closing parenthesis at the   *)
(* end of the text (main.rs:151)                                           *)
(***************************************************************************)
\* length of the longest prefix of s made of name characters
RECURSIVE NamePrefixLen(_)
NamePrefixLen(s) ==
    IF s # <<>> /\ Head(s) \in NameChars THEN 1 + NamePrefixLen(Tail(s)) ELSE 0

\* Regex::captures: None, or the two capture groups
tool_call_regex_captures(s) ==
    LET k == NamePrefixLen(s)
        n == Len(s)
    IN  IF /\ k >= 1
           /\ n >= k + 2
           /\ s[k + 1] = "("
           /\ s[n] = ")"
           /\ \A i \in (k + 2)..(n - 1) : s[i] # "\n"
        THEN Some([tool_name |-> SubSeq(s, 1, k),
                   params_str |-> SubSeq(s, k + 2, n - 1)])
        ELSE None

(***************************************************************************)
(* JSON values (serde_json::Value)                                         *)
(***************************************************************************)
JStr(s) == [tag |-> "str", v |-> s]
JNum(n) == [tag |-> "num", v |-> n]
JArr(a) == [tag |-> "arr", v |-> a]
JObj(o) == [tag |-> "obj", v |-> o]
\* serde_json::json!({})
EmptyObject == JObj(<<>>)

\* Value::get(key): a member of an object, None otherwise
get(value, key) ==
    IF value.tag = "obj" /\ key \in DOMAIN value.v THEN Some(value.v[key]) ELSE None
\* Option<&Value>::and_then(Value::as_str)
and_then_as_str(opt) ==
    IF opt.some /\ opt.val.tag = "str" THEN Some(opt.val.v) ELSE None
\* Option<&Value>::and_then(Value::as_array)
and_then_as_array(opt) ==
    IF opt.some /\ opt.val.tag = "arr" THEN Some(opt.val.v) ELSE None

\* serde_json::from_str on the argument spans of this model
from_str(span) ==
    CASE span = a_empty_obj -> Ok(EmptyObject)
      [] span = a_path_dot  -> Ok(JObj([path |-> JStr(p_dot)]))
      [] span = a_path_x    -> Ok(JObj([path |-> JStr(p_x)]))
      [] span = a_write     -> Ok(JObj([path |-> JStr(p_x), content |-> JStr(t_y)]))
      [] span = a_edit      -> Ok(JObj([file_path |-> JStr(p_x),
                                        old_string |-> JStr(t_y),
                                        new_string |-> JStr(t_z)]))
      [] span = a_pattern   -> Ok(JObj([pattern |-> JStr(<<"*">>)]))
      [] span = a_command   -> Ok(JObj([command |-> JStr(c_ls)]))
      [] span = a_url       -> Ok(JObj([url |-> JStr(<<"u">>)]))
      [] span = a_query     -> Ok(JObj([query |-> JStr(<<"q">>)]))
      [] span = a_fact      -> Ok(JObj([fact |-> JStr(<<"f">>)]))
      [] span = a_paths     -> Ok(JObj([paths |-> JArr(<<JStr(p_x)>>)]))
      [] span = a_paths_num -> Ok(JObj([paths |-> JArr(<<JNum(1)>>)]))
      [] OTHER              -> Err("Json")

\* serde_json::from_str(params_str).unwrap_or_else(|_| json!({}))
parse_params(params_str) ==
    LET r == from_str(params_str) IN IF r.ok THEN r.val ELSE EmptyObject

(***************************************************************************)
(* The file system the tools act on: one tracked file, /x.  Paths outside  *)
(* Paths exist or not as the environment decides (the io outcome).         *)
(***************************************************************************)
Paths == {p_x}
NoFile == [present |-> FALSE, content |-> <<>>]
File(c) == [present |-> TRUE, content |-> c]

\* tokio::fs::write
fs_write(fs, path, content) ==
    IF path \in DOMAIN fs THEN [fs EXCEPT ![path] = File(content)] ELSE fs
\* tokio::fs::read_to_string succeeds
fs_readable(fs, path) == path \in DOMAIN fs => fs[path].present
\* content read from a path
fs_content(fs, path) == IF path \in DOMAIN fs THEN fs[path].content ELSE <<>>

(***************************************************************************)
(* Tools (crates/core/src/tools.rs).  execute takes the parsed parameters, *)
(* the cancellation signal (None, or Some of a signal stream on which a    *)
(* signal is "raised" during the call or that stays "quiet"), the outcome  *)
(* io of the external operations it performs and the file system; it       *)
(* returns                                                                 *)
(*   result : "Success" | "Error"  for Ok(ToolResult::Success / Error)     *)
(*            "Err"                for Err(ShellmindError)                 *)
(*   files  : the file system afterwards                                   *)
(*   spawned: the command lines given to a spawned shell                   *)
(***************************************************************************)
ReadFileTool == [struct |-> "ReadFileTool", name |-> n_read_file, display_name |-> "Read File"]
WriteFileTool == [struct |-> "WriteFileTool", name |-> n_write_file, display_name |-> "Write File"]
EditTool == [struct |-> "EditTool", name |-> n_edit_file, display_name |-> "Edit File"]
LSTool == [struct |-> "LSTool", name |-> n_list_directory, display_name |-> "List Directory"]
GrepTool == [struct |-> "GrepTool", name |-> n_search_file_content, display_name |-> "Search File Content"]
GlobTool == [struct |-> "GlobTool", name |-> n_glob, display_name |-> "Glob Search"]
ShellTool == [struct |-> "ShellTool", name |-> n_run_shell_command, display_name |-> "Run Shell Command"]
WebFetchTool == [struct |-> "WebFetchTool", name |-> n_web_fetch, display_name |-> "Web Fetch"]
WebSearchTool == [struct |-> "WebSearchTool", name |-> n_google_web_search, display_name |-> "Google Web Search"]
MemoryTool == [struct |-> "MemoryTool", name |-> n_save_memory, display_name |-> "Save Memory"]
ReadManyFilesTool == [struct |-> "ReadManyFilesTool", name |-> n_read_many_files, display_name |-> "Read Many Files"]

ExecResult(r, fs, sp) == [result |-> r, files |-> fs, spawned |-> sp]

ReadFileTool_execute(params, signal, io, fs) ==
    LET path == and_then_as_str(get(params, "path"))
    IN  IF ~path.some THEN ExecResult("Err", fs, <<>>)
        ELSE IF io = "ok" /\ fs_readable(fs, path.val)
             THEN ExecResult("Success", fs, <<>>)
             ELSE ExecResult("Error", fs, <<>>)

WriteFileTool_execute(params, signal, io, fs) ==
    LET path == and_then_as_str(get(params, "path"))
        content == and_then_as_str(get(params, "content"))
    IN  IF ~path.some THEN ExecResult("Err", fs, <<>>)
        ELSE IF ~content.some THEN ExecResult("Err", fs, <<>>)
        ELSE IF io = "ok"
             THEN ExecResult("Success", fs_write(fs, path.val, content.val), <<>>)
             ELSE ExecResult("Error", fs, <<>>)

EditTool_execute(params, signal, io, fs) ==
    LET file_path == and_then_as_str(get(params, "file_path"))
        old_string == and_then_as_str(get(params, "old_string"))
        new_string == and_then_as_str(get(params, "new_string"))
    IN  IF ~file_path.some THEN ExecResult("Err", fs, <<>>)
        ELSE IF ~old_string.some THEN ExecResult("Err", fs, <<>>)
        ELSE IF ~new_string.some THEN ExecResult("Err", fs, <<>>)
        ELSE IF io = "fail" \/ ~fs_readable(fs, file_path.val)
             THEN ExecResult("Error", fs, <<>>)
        ELSE IF io = "fail_late" THEN ExecResult("Error", fs, <<>>)
        ELSE ExecResult("Success",
                        fs_write(fs, file_path.val,
                                 replace(fs_content(fs, file_path.val),
                                         old_string.val, new_string.val)),
                        <<>>)

LSTool_execute(params, signal, io, fs) ==
    LET path == and_then_as_str(get(params, "path"))
    IN  IF ~path.some THEN ExecResult("Err", fs, <<>>)
        ELSE IF io = "fail" THEN ExecResult("Err", fs, <<>>)
        ELSE IF io = "fail_late" THEN ExecResult("Err", fs, <<>>)
        ELSE ExecResult("Success", fs, <<>>)

\* the code points of the characters of file names; U+FFFD stands for an
\* invalid byte
REPLACEMENT_CHARACTER == "U+FFFD"
CodePoint ==
    [c \in {"B", "a", "b", REPLACEMENT_CHARACTER} |->
        CASE c = "B" -> 66 [] c = "a" -> 97 [] c = "b" -> 98 [] OTHER -> 65533]

\* OsStr::to_string_lossy
to_string_lossy(name) ==
    [i \in DOMAIN name |->
        IF name[i] \in {"0xFE", "0xFF"} THEN REPLACEMENT_CHARACTER ELSE name[i]]

\* Ord for String: s <= t, byte by byte
RECURSIVE string_le(_, _)
string_le(s, t) ==
    IF s = <<>> THEN TRUE
    ELSE IF t = <<>> THEN FALSE
    ELSE IF CodePoint[Head(s)] # CodePoint[Head(t)]
         THEN CodePoint[Head(s)] < CodePoint[Head(t)]
    ELSE string_le(Tail(s), Tail(t))

\* v with x put before the first element greater than x
RECURSIVE insert_sorted(_, _)
insert_sorted(x, v) ==
    IF v = <<>> THEN <<x>>
    ELSE IF string_le(Head(v), x) THEN <<Head(v)>> \o insert_sorted(x, Tail(v))
    ELSE <<x>> \o v

\* the names stay in the order read_dir yielded them
sort_keeping_order(v) == v

\* Vec<String>::sort
RECURSIVE sort(_)
sort(v) ==
    IF v = <<>> THEN <<>>
    ELSE insert_sorted(v[Len(v)], sort(SubSeq(v, 1, Len(v) - 1)))

\* str::join
RECURSIVE join(_, _)
join(v, sep) ==
    IF v = <<>> THEN <<>>
    ELSE IF Len(v) = 1 THEN v[1]
    ELSE v[1] \o sep \o join(Tail(v), sep)

\* the text LSTool::execute returns for the entries read_dir yields
LSTool_output(entries) ==
    LET file_names == [i \in DOMAIN entries |-> to_string_lossy(entries[i])]
    IN  join(sort(file_names), <<"\n">>)

GrepTool_execute(params, signal, io, fs) ==
    LET pattern_str == and_then_as_str(get(params, "pattern"))
    IN  IF ~pattern_str.some THEN ExecResult("Err", fs, <<>>)
        ELSE IF io = "fail" THEN ExecResult("Err", fs, <<>>)
        ELSE IF io = "fail_late" THEN ExecResult("Err", fs, <<>>)
        ELSE ExecResult("Success", fs, <<>>)

GlobTool_execute(params, signal, io, fs) ==
    LET pattern_str == and_then_as_str(get(params, "pattern"))
    IN  IF ~pattern_str.some THEN ExecResult("Err", fs, <<>>)
        ELSE IF io = "fail" THEN ExecResult("Err", fs, <<>>)
        ELSE IF io = "fail_late" THEN ExecResult("Err", fs, <<>>)
        ELSE ExecResult("Success", fs, <<>>)

ShellTool_execute(params, signal, io, fs) ==
    LET command_str == and_then_as_str(get(params, "command"))
    IN  IF ~command_str.some THEN ExecResult("Err", fs, <<>>)
        ELSE IF io = "fail" THEN ExecResult("Err", fs, <<>>)
        ELSE IF io = "ok" THEN ExecResult("Success", fs, <<command_str.val>>)
        ELSE ExecResult("Error", fs, <<command_str.val>>)

WebFetchTool_execute(params, signal, io, fs) ==
    LET url == and_then_as_str(get(params, "url"))
    IN  IF ~url.some THEN ExecResult("Err", fs, <<>>)
        ELSE IF io = "ok" THEN ExecResult("Success", fs, <<>>)
        ELSE ExecResult("Error", fs, <<>>)

WebSearchTool_execute(params, signal, io, fs) ==
    LET query == and_then_as_str(get(params, "query"))
    IN  IF ~query.some THEN ExecResult("Err", fs, <<>>)
        ELSE ExecResult("Success", fs, <<>>)

MemoryTool_execute(params, signal, io, fs) ==
    LET fact == and_then_as_str(get(params, "fact"))
    IN  IF ~fact.some THEN ExecResult("Err", fs, <<>>)
        ELSE ExecResult("Success", fs, <<>>)

ReadManyFilesTool_execute(params, signal, io, fs) ==
    LET paths_json == and_then_as_array(get(params, "paths"))
    IN  IF ~paths_json.some THEN ExecResult("Err", fs, <<>>)
        ELSE IF \E i \in 1..Len(paths_json.val) : paths_json.val[i].tag # "str"
             THEN ExecResult("Err", fs, <<>>)
        ELSE IF io = "fail" THEN ExecResult("Err", fs, <<>>)
        ELSE ExecResult("Success", fs, <<>>)

\* BaseTool::execute, dispatched on the implementing type
execute(tool, params, signal, io, fs) ==
    CASE tool.struct = "ReadFileTool" -> ReadFileTool_execute(params, signal, io, fs)
      [] tool.struct = "WriteFileTool" -> WriteFileTool_execute(params, signal, io, fs)
      [] tool.struct = "EditTool" -> EditTool_execute(params, signal, io, fs)
      [] tool.struct = "LSTool" -> LSTool_execute(params, signal, io, fs)
      [] tool.struct = "GrepTool" -> GrepTool_execute(params, signal, io, fs)
      [] tool.struct = "GlobTool" -> GlobTool_execute(params, signal, io, fs)
      [] tool.struct = "ShellTool" -> ShellTool_execute(params, signal, io, fs)
      [] tool.struct = "WebFetchTool" -> WebFetchTool_execute(params, signal, io, fs)
      [] tool.struct = "WebSearchTool" -> WebSearchTool_execute(params, signal, io, fs)
      [] tool.struct = "MemoryTool" -> MemoryTool_execute(params, signal, io, fs)
      [] tool.struct = "ReadManyFilesTool" -> ReadManyFilesTool_execute(params, signal, io, fs)

\* the outcomes the external operations of a tool can have:
\*   ok        every operation succeeds (a spawned process exits with 0)
\*   fail      the first operation fails (open, read_dir, spawn, send, compile)
\*   fail_late a later operation fails (write back, next entry, walk)
\*   nonzero   the spawned process exits with a nonzero status
IoOutcomes(tool) ==
    CASE tool.struct \in {"ReadFileTool", "WriteFileTool", "WebFetchTool",
                          "ReadManyFilesTool"} -> {"ok", "fail"}
      [] tool.struct \in {"EditTool", "LSTool", "GrepTool", "GlobTool"} ->
            {"ok", "fail", "fail_late"}
      [] tool.struct = "ShellTool" -> {"ok", "fail", "nonzero"}
      [] OTHER -> {"ok"}

\* "unknown command"
UnknownCommand ==
    <<"u","n","k","n","o","w","n"," ","c","o","m","m","a","n","d">>

\* listing a directory asks for a confirmation as well
should_confirm_execute_asking_for_ls(tool, params) ==
    IF tool.struct \in {"WriteFileTool", "EditTool", "LSTool"}
    THEN Some([message |-> "This will modify a file. Are you sure?", arg |-> <<>>])
    ELSE IF tool.struct = "ShellTool"
    THEN Some([message |-> "This will execute the command: '{}'. Are you sure?",
               arg |-> UnknownCommand])
    ELSE None

\* a call whose parameters are not valid is not confirmed
should_confirm_execute_skipping_invalid(tool, params) ==
    CASE tool.struct = "WriteFileTool" /\ and_then_as_str(get(params, "path")).some ->
            Some([message |-> "This will write content to a file. Are you sure?",
                  arg |-> <<>>])
      [] tool.struct = "EditTool" /\ and_then_as_str(get(params, "file_path")).some ->
            Some([message |-> "This will modify a file. Are you sure?",
                  arg |-> <<>>])
      [] tool.struct = "ShellTool" /\ and_then_as_str(get(params, "command")).some ->
            Some([message |-> "This will execute the command: '{}'. Are you sure?",
                  arg |-> and_then_as_str(get(params, "command")).val])
      [] OTHER -> None

\* BaseTool::should_confirm_execute: Some(ConfirmationDetails) or None
should_confirm_execute(tool, params) ==
    CASE tool.struct = "WriteFileTool" ->
            Some([message |-> "This will write content to a file. Are you sure?",
                  arg |-> <<>>])
      [] tool.struct = "EditTool" ->
            Some([message |-> "This will modify a file. Are you sure?",
                  arg |-> <<>>])
      [] tool.struct = "ShellTool" ->
            LET command == and_then_as_str(get(params, "command"))
            IN  Some([message |-> "This will execute the command: '{}'. Are you sure?",
                      arg |-> IF command.some THEN command.val ELSE UnknownCommand])
      [] OTHER -> None

(***************************************************************************)
(* ToolRegistry (crates/core/src/lib.rs)                                   *)
(***************************************************************************)
\* ToolRegistry::new: an empty map
ToolRegistry_new == <<>>

\* a name that is registered already keeps its tool
register_keeping_first(tools, tool) ==
    [n \in DOMAIN tools \cup {tool.name} |-> IF n \in DOMAIN tools THEN tools[n] ELSE tool]

\* ToolRegistry::register: HashMap::insert under the tool's name
register(tools, tool) ==
    [n \in DOMAIN tools \cup {tool.name} |-> IF n = tool.name THEN tool ELSE tools[n]]

RECURSIVE register_all(_, _)
register_all(tools, list) ==
    IF list = <<>> THEN tools
    ELSE register_all(register(tools, Head(list)), Tail(list))

\* the registrations of ShellmindCLI::new, in order
tool_registry ==
    register_all(ToolRegistry_new,
                 <<ReadFileTool, WriteFileTool, EditTool, LSTool, GrepTool, GlobTool,
                   ShellTool, WebFetchTool, WebSearchTool, MemoryTool,
                   ReadManyFilesTool>>)

\* ToolRegistry::get_tool
get_tool(tools, name) ==
    IF name \in DOMAIN tools THEN Some(tools[name]) ELSE None

(***************************************************************************)
(* Backend clients (crates/core/src/lib.rs).  A response is what the       *)
(* transport delivers:                                                     *)
(*   [kind |-> "invalid_uri"]    Channel::from_shared rejects the endpoint *)
(*   [kind |-> "connect_error"]  send / connect fails                      *)
(*   [kind |-> "status_error"]   non-success HTTP status / tonic::Status   *)
(*   [kind |-> "decode_error"]   the body is not a GeminiResponse          *)
(*   [kind |-> "body", candidates |-> <<...>>]                             *)
(* a candidate is [content |-> None] or [content |-> Some(parts)], parts a *)
(* sequence of texts.                                                      *)
(***************************************************************************)
\* a response without a first text gives the empty text
first_text_or_empty(candidates) ==
    IF /\ Len(candidates) >= 1
       /\ candidates[1].content.some
       /\ Len(candidates[1].content.val) >= 1
    THEN candidates[1].content.val[1]
    ELSE <<>>

\* candidates.get(0).and_then(content).and_then(parts.get(0)).map(text)
\*     .unwrap_or_else(|| "No command generated")
first_text_or_fallback(candidates) ==
    IF /\ Len(candidates) >= 1
       /\ candidates[1].content.some
       /\ Len(candidates[1].content.val) >= 1
    THEN candidates[1].content.val[1]
    ELSE NoCommandGenerated

\* the status of the response is not tested
generate_command_rest_without_status_test(response) ==
    CASE response.kind = "connect_error" -> Err("Api")
      [] response.kind = "status_error" -> Ok(NoCommandGenerated)
      [] response.kind = "decode_error" -> Err("Api")
      [] response.kind = "body" -> Ok(first_text_or_fallback(response.candidates))

generate_command_rest(response) ==
    CASE response.kind = "connect_error" -> Err("Api")
      [] response.kind = "status_error" -> Err("Other")
      [] response.kind = "decode_error" -> Err("Api")
      [] response.kind = "body" -> Ok(first_text_or_fallback(response.candidates))

generate_command_grpc(response) ==
    CASE response.kind = "invalid_uri" -> Err("InvalidUri")
      [] response.kind = "connect_error" -> Err("GrpcTransport")
      [] response.kind = "status_error" -> Err("Grpc")
      [] response.kind = "body" -> Ok(first_text_or_fallback(response.candidates))

\* the REST client is called whatever the api_type
client_for_always_rest(api) ==
    "generate_command_rest"

\* match self.config.api_type (main.rs:120-123): the client that is called
client_for(api) ==
    CASE api = "Rest" -> "generate_command_rest"
      [] api = "Grpc" -> "generate_command_grpc"

\* the call of that client
generate(api, response) ==
    IF client_for(api) = "generate_command_rest" THEN generate_command_rest(response)
    ELSE generate_command_grpc(response)

(***************************************************************************)
(* Inputs of the model                                                     *)
(***************************************************************************)
Call(name, args) == name \o <<"(">> \o args \o <<")">>

\* texts a backend may generate: calls of every registered tool, ...
ToolCallReplies ==
    { Call(n_read_file, a_path_x), Call(n_read_file, a_oops),
      Call(n_write_file, a_write), Call(n_edit_file, a_edit),
      Call(n_list_directory, a_path_dot), Call(n_search_file_content, a_pattern),
      Call(n_glob, a_pattern), Call(n_run_shell_command, a_command),
      Call(n_web_fetch, a_url), Call(n_google_web_search, a_query),
      Call(n_save_memory, a_fact), Call(n_read_many_files, a_paths),
      Call(n_read_many_files, a_paths_num) }
\* ... a call of a name no tool has, ...
UnknownCallReplies ==
    { Call(n_frobnicate, a_empty_obj) }
\* ... texts of more than one line, ...
MultiLineReplies ==
    { <<"h","i","\n","y","o","u">>,
      Call(n_write_file, a_write) \o <<"\n">>,
      <<"l","s","\n">> }
\* ... and single lines that are not of the form name(arguments)
ShellReplies ==
    { c_rm, c_ls,
      <<" ">> \o Call(n_list_directory, a_path_dot),
      Call(n_write_file, a_write) \o <<" ">>,
      <<"(">> \o a_empty_obj \o <<")">>,
      <<"l","s","2">> \o <<"(">> \o <<")">> }
AllReplies == ToolCallReplies \cup UnknownCallReplies \cup MultiLineReplies \cup ShellReplies

\* the replies of the sessions of several turns
Replies ==
    { Call(n_write_file, a_write), Call(n_read_file, a_oops),
      Call(n_list_directory, a_path_dot),
      Call(n_frobnicate, a_empty_obj),
      Call(n_write_file, a_write) \o <<"\n">>,
      c_rm, c_ls }

Candidate(parts) == [content |-> Some(parts)]
Body(candidates) == [kind |-> "body", candidates |-> candidates]
Bodies(replies) ==
    { Body(<<>>), Body(<<Candidate(<<>>)>>), Body(<<[content |-> None]>>) }
      \cup { Body(<<Candidate(<<t>>)>>) : t \in replies }
      \cup { Body(<<Candidate(<<c_ls, c_rm>>), Candidate(<<c_rm>>)>>) }
Failures(api) ==
    IF api = "Rest"
    THEN { [kind |-> k] : k \in {"connect_error", "status_error", "decode_error"} }
    ELSE { [kind |-> k] : k \in {"invalid_uri", "connect_error", "status_error"} }
\* a REST candidate always has a content (struct Candidate)
Responses(api, replies) ==
    Failures(api) \cup
    { b \in Bodies(replies) :
        api = "Rest" => \A i \in 1..Len(b.candidates) : b.candidates[i].content.some }

\* lines the user may type
Lines ==
    { <<"h","i">>, <<" ","l","s"," ">>, <<"l","s">>, <<>>, <<" ","\t">>,
      ExitToken, <<"E","x","I","T">>, <<" ","e","x","i","t"," ">> }
\* the lines of the sessions that try every reply; the line editor returns a
\* text pasted at the prompt as one line, line feeds included
FewLines ==
    { <<" ","l","s"," ">>, <<>>, ExitToken, <<"l","s","\n","p","w","d">> }

\* allow-lists the loaded configuration may hold
InitialAllowLists == { <<>> }

(***************************************************************************)
(* Session state                                                           *)
(***************************************************************************)
VARIABLES
    pc,                \* position of main, ShellmindCLI::new and ShellmindCLI::start
    env,               \* what the process finds when it starts
    lib_call,          \* the last direct call of an operation of the core crate
    api_type,          \* config.api_type
    allowed_commands,  \* config.allowed_commands
    config_file,       \* allowed_commands as stored in ~/.shellmind/config.toml
    history,           \* the conversation history of start
    cmd_history,       \* command_history_manager.history
    history_file,      \* the text of ~/.shellmind/history.txt
    files,             \* the file system the tools act on
    input,             \* the trimmed line of the current turn
    command,           \* the text generated for the current turn
    turns,             \* turns started so far
    \* what the current loop iteration has done so far
    calls,             \* backend calls issued
    prompts,           \* interactive prompts shown
    answer,            \* the answer given to the prompt
    executed,          \* tool.execute / run_command calls made, each with the
                       \* outcome io of its external operations and its result
    spawned,           \* command lines run by a spawned shell
    printed            \* reports printed to the user

vars ==
    <<pc, env, lib_call, api_type, allowed_commands, config_file, history, cmd_history,
      history_file, files, input, command, turns, calls, prompts, answer,
      executed, spawned, printed>>

config_vars == <<env, lib_call, api_type, allowed_commands, config_file>>
log_vars == <<cmd_history, history_file>>
turn_vars == <<input, command, turns>>
trace_vars == <<calls, prompts, answer, executed, spawned, printed>>

GeminiContent(role, text) == [role |-> role, text |-> text]
Msg(m, arg) == [msg |-> m, arg |-> arg]

\* the history start begins with (main.rs:75-88)
InitialHistory ==
    <<GeminiContent("user", system_prompt), GeminiContent("model", ReadyReply)>>

\* a turn equal to the one before it is not pushed again
push_turn_deduplicating(h, user_text, model_text) ==
    IF /\ Len(h) >= 2
       /\ h[Len(h) - 1] = GeminiContent("user", user_text)
       /\ h[Len(h)] = GeminiContent("model", model_text)
    THEN h
    ELSE Append(Append(h, GeminiContent("user", user_text)),
                GeminiContent("model", model_text))

\* the model text is trimmed before it is pushed
push_turn_trimming_model(h, user_text, model_text) ==
    Append(Append(h, GeminiContent("user", user_text)),
           GeminiContent("model", trim(model_text)))

\* only the user's turn is pushed
push_turn_without_model(h, user_text, model_text) ==
    Append(h, GeminiContent("user", user_text))

\* the two pushes that record a turn (main.rs:134-146, 210-222)
push_turn(h, user_text, model_text) ==
    Append(Append(h, GeminiContent("user", user_text)),
           GeminiContent("model", model_text))

\* the list is replaced by the new command
add_allowed_command_replacing(allowed, cmd) ==
    IF ~contains(allowed, cmd) THEN <<cmd>> ELSE allowed

\* the command is pushed whether the list holds it or not
add_allowed_command_always_pushing(allowed, cmd) ==
    Append(allowed, cmd)

\* ConfigManager::add_allowed_command
add_allowed_command(allowed, cmd) ==
    IF ~contains(allowed, cmd) THEN Append(allowed, cmd) ELSE allowed

\* a call of an unregistered name falls through to the shell branch
interpret_unknown_as_shell(text) ==
    IF contains_newline(text) THEN [kind |-> "InformationalMessage"]
    ELSE LET captures == tool_call_regex_captures(text)
         IN  IF captures.some /\ get_tool(tool_registry, captures.val.tool_name).some
             THEN [kind |-> "ToolInvocation",
                   tool |-> get_tool(tool_registry, captures.val.tool_name).val,
                   params |-> parse_params(captures.val.params_str)]
             ELSE [kind |-> "ShellCommand"]

\* the classification of a generated text (main.rs:132-185)
interpret(text) ==
    IF contains_newline(text) THEN [kind |-> "InformationalMessage"]
    ELSE LET captures == tool_call_regex_captures(text)
         IN  IF captures.some
             THEN LET tool == get_tool(tool_registry, captures.val.tool_name)
                  IN  IF tool.some
                      THEN [kind |-> "ToolInvocation",
                            tool |-> tool.val,
                            params |-> parse_params(captures.val.params_str)]
                      ELSE [kind |-> "UnknownTool",
                            tool_name |-> captures.val.tool_name]
             ELSE [kind |-> "ShellCommand"]

\* the tool runs on "no" and is cancelled on "yes"
after_confirm_inverted(confirmed) ==
    IF confirmed THEN "Recording" ELSE "ExecutingTool"

\* the tool runs whatever the answer is
after_confirm_ignoring_answer(confirmed) ==
    "ExecutingTool"

\* a denied confirmation leaves the turn waiting at the gate for good
after_confirm_waiting_on_no(confirmed) ==
    IF confirmed THEN "ExecutingTool" ELSE "Gating"

\* if confirmed { execute } else { cancelled } (main.rs:164-173)
after_confirm(confirmed) ==
    IF confirmed THEN "ExecutingTool" ELSE "Recording"

\* on "no" a new command is generated in the same turn
after_select_regenerating_on_no(selection) ==
    CASE selection = Some(0) -> "ExecutingShell"
      [] selection = Some(1) -> "SavingConfig"
      [] selection = Some(2) -> "Generating"
      [] OTHER -> "Recording"

\* "always allow" runs the command without adding and saving it first
after_select_without_save(selection) ==
    CASE selection = Some(0) -> "ExecutingShell"
      [] selection = Some(1) -> "ExecutingShell"
      [] OTHER -> "Recording"

\* only a cancelled prompt skips the command: "no" falls into a running arm
after_select_running_on_no(selection) ==
    CASE selection = Some(0) -> "ExecutingShell"
      [] selection = Some(1) -> "SavingConfig"
      [] selection = None -> "Recording"
      [] OTHER -> "ExecutingShell"

\* match selection (main.rs:193-205)
after_select(selection) ==
    CASE selection = Some(0) -> "ExecutingShell"
      [] selection = Some(1) -> "SavingConfig"
      [] OTHER -> "Recording"

\* no operation has been called directly
NoCall == [op |-> "none"]

\* an environment in which the session starts and enters the loop
GoodEnv ==
    [config |-> "ok", api_key |-> <<"k">>, context_window_size |-> 8,
     history_dir |-> "ok", history_txt |-> "absent", editor |-> "ok", args |-> 1]

Init ==
    /\ pc = "AwaitingInput"
    /\ env = GoodEnv
    /\ lib_call = NoCall
    /\ api_type \in {"Rest", "Grpc"}
    /\ allowed_commands \in InitialAllowLists
    /\ config_file = allowed_commands
    /\ history = InitialHistory
    /\ cmd_history = <<>>
    /\ history_file = <<>>
    /\ files = [p \in Paths |-> NoFile]
    /\ input = <<>>
    /\ command = <<>>
    /\ turns = 0
    /\ calls = <<>>
    /\ prompts = <<>>
    /\ answer = "none"
    /\ executed = <<>>
    /\ spawned = <<>>
    /\ printed = <<>>

\* a loop iteration starts with nothing done
FreshIteration ==
    /\ command' = <<>>
    /\ calls' = <<>>
    /\ prompts' = <<>>
    /\ answer' = "none"
    /\ executed' = <<>>
    /\ spawned' = <<>>

(***************************************************************************)
(* AwaitingInput: read_user_input and the tests on the line (main.rs:92-115)*)
(***************************************************************************)
\* a line that is neither empty nor the exit token starts a turn
ReadInputFrom(lines, max_turns) ==
    /\ pc = "AwaitingInput"
    /\ turns < max_turns
    /\ \E line \in lines :
          /\ ~eq_ignore_ascii_case(trim(line), ExitToken)
          /\ trim(line) # <<>>
          /\ input' = trim(line)
    /\ turns' = turns + 1
    /\ FreshIteration
    /\ printed' = <<Msg("Generating command...", <<>>)>>
    /\ pc' = "Generating"
    /\ UNCHANGED <<config_vars, history, log_vars, files>>

ReadInput == ReadInputFrom(Lines, MaxTurns)

\* "exit" in any letter case leaves the loop
ReadExit ==
    /\ pc = "AwaitingInput"
    /\ \E line \in Lines :
          /\ eq_ignore_ascii_case(trim(line), ExitToken)
          /\ input' = trim(line)
    /\ FreshIteration
    /\ printed' = <<Msg("Shutting down Shellmind.", <<>>)>>
    /\ pc' = "Exited"
    /\ UNCHANGED <<config_vars, history, log_vars, files, turns>>

\* an empty line: continue
ReadEmpty ==
    /\ pc = "AwaitingInput"
    /\ \E line \in Lines :
          /\ ~eq_ignore_ascii_case(trim(line), ExitToken)
          /\ trim(line) = <<>>
          /\ input' = trim(line)
    /\ FreshIteration
    /\ printed' = <<>>
    /\ pc' = "AwaitingInput"
    /\ UNCHANGED <<config_vars, history, log_vars, files, turns>>

\* every read error ends the session
after_read_error_always_breaking(e) == "Exited"

\* the match on the error of read_user_input: break or continue
after_read_error(e) ==
    IF e \in {"Interrupted", "Eof"} THEN "Exited" ELSE "AwaitingInput"

\* Err(Interrupted), Err(Eof): break; any other Err: report and continue
ReadFailure ==
    /\ pc = "AwaitingInput"
    /\ \E e \in {"Interrupted", "Eof", "Other"} :
          /\ printed' = <<Msg(IF e = "Interrupted" THEN "Ctrl-C received, exiting."
                               ELSE IF e = "Eof" THEN "Ctrl-D received, exiting."
                               ELSE "Error reading input", <<>>)>>
          /\ pc' = after_read_error(e)
    /\ input' = <<>>
    /\ FreshIteration
    /\ UNCHANGED <<config_vars, history, log_vars, files, turns>>

(***************************************************************************)
(* Generating: one backend call (main.rs:117-127, 224-226)                 *)
(***************************************************************************)
\* only the last context_window_size turns of the history are sent
request_contents_windowed(config, user_prompt, h) ==
    Append(IF Len(h) > config.context_window_size
           THEN SubSeq(h, Len(h) - config.context_window_size + 1, Len(h))
           ELSE h,
           GeminiContent("user", user_prompt))

\* the contents of the request both clients build (lib.rs:383-387, 429-440)
request_contents(config, user_prompt, h) ==
    Append(h, GeminiContent("user", user_prompt))

\* the responses the client called for an api_type can get
ResponsesFor(api, replies) ==
    Responses(IF client_for(api) = "generate_command_rest" THEN "Rest" ELSE "Grpc",
              replies)

\* what is kept of a backend call: the client called, the contents of the
\* request, the kind of the response, the number of its candidates and of the parts of the first one
CallRecord(api, contents, response) ==
    [api |-> api, client |-> client_for(api), contents |-> contents,
     response |-> response.kind,
     candidates |-> IF response.kind = "body" THEN Len(response.candidates) ELSE 0,
     parts |-> IF /\ response.kind = "body"
                  /\ response.candidates # <<>>
                  /\ response.candidates[1].content.some
               THEN Len(response.candidates[1].content.val) ELSE 0]

GenerateFrom(replies) ==
    /\ pc = "Generating"
    /\ \E response \in ResponsesFor(api_type, replies) :
          LET result == generate(api_type, response)
          IN  /\ calls' = Append(calls,
                                 CallRecord(api_type,
                                            request_contents(
                                               [context_window_size |->
                                                   env.context_window_size],
                                               input, history),
                                            response))
              /\ IF result.ok
                 THEN /\ command' = result.val
                      /\ printed' = Append(printed, Msg("print_command", result.val))
                      /\ pc' = "Interpreting"
                 ELSE /\ command' = command
                      /\ printed' = Append(printed, Msg("Error generating command", <<>>))
                      /\ pc' = "AwaitingInput"
    /\ UNCHANGED <<config_vars, history, log_vars, files, input, turns,
                   prompts, answer, executed, spawned>>

Generate == GenerateFrom(Replies)

(***************************************************************************)
(* Interpreting: classification of the generated text (main.rs:131-191)    *)
(***************************************************************************)
Interpret ==
    /\ pc = "Interpreting"
    /\ LET c == interpret(command)
       IN  CASE c.kind = "InformationalMessage" ->
                  /\ history' = push_turn(history, input, command)
                  /\ printed' = Append(printed, Msg("informational", command))
                  /\ prompts' = prompts
                  /\ pc' = "AwaitingInput"
             [] c.kind = "ToolInvocation" ->
                  LET confirmation_details == should_confirm_execute(c.tool, c.params)
                  IN  /\ history' = history
                      /\ IF confirmation_details.some
                         THEN /\ prompts' = Append(prompts,
                                                   [kind |-> "Confirm",
                                                    prompt |-> confirmation_details.val])
                              /\ printed' = printed
                              /\ pc' = "GatingTool"
                         ELSE /\ prompts' = prompts
                              /\ printed' = Append(printed,
                                                   Msg("Executing tool", c.tool.name))
                              /\ pc' = "ExecutingTool"
             [] c.kind = "UnknownTool" ->
                  /\ history' = history
                  /\ printed' = Append(printed, Msg("Unknown tool", c.tool_name))
                  /\ prompts' = prompts
                  /\ pc' = "Recording"
             [] c.kind = "ShellCommand" ->
                  /\ history' = history
                  /\ printed' = printed
                  /\ prompts' = Append(prompts, [kind |-> "Select",
                                              prompt |-> [message |-> "Bu komutu calistirmak ister misiniz?",
                                                          arg |-> <<>>]])
                  /\ pc' = "GatingShell"
    /\ UNCHANGED <<config_vars, log_vars, files, turn_vars, calls, answer,
                   executed, spawned>>

(***************************************************************************)
(* Gating and executing a tool call (main.rs:159-181)                      *)
(***************************************************************************)
\* dialoguer::Confirm::interact()?
AnswerConfirm ==
    /\ pc = "GatingTool"
    /\ \E r \in {Ok(TRUE), Ok(FALSE), Err("dialoguer")} :
          IF r.ok
          THEN /\ answer' = IF r.val THEN "yes" ELSE "no"
               /\ pc' = after_confirm(r.val)
               /\ printed' = Append(printed,
                                    IF after_confirm(r.val) = "ExecutingTool"
                                    THEN Msg("Executing tool", interpret(command).tool.name)
                                    ELSE Msg("Tool execution cancelled.", <<>>))
          ELSE /\ answer' = "error"
               /\ pc' = "Failed"
               /\ printed' = printed
    /\ UNCHANGED <<config_vars, history, log_vars, files, turn_vars, calls,
                   prompts, executed, spawned>>

\* tool.execute(params, None).await? and the report of its result
ExecuteTool ==
    /\ pc = "ExecutingTool"
    /\ LET c == interpret(command)
       IN  \E io \in IoOutcomes(c.tool) :
             LET r == execute(c.tool, c.params, None, io, files)
             IN  /\ executed' = Append(executed,
                                       [kind |-> "tool", name |-> c.tool.name,
                                        params |-> c.params, io |-> io,
                                        result |-> r.result])
                 /\ files' = r.files
                 /\ spawned' = spawned \o r.spawned
                 /\ IF r.result = "Err"
                    THEN /\ pc' = "Failed"
                         /\ printed' = printed
                    ELSE /\ pc' = "Recording"
                         /\ printed' = Append(printed,
                                              Msg(IF r.result = "Success"
                                                  THEN "Tool output" ELSE "Tool error",
                                                  <<>>))
    /\ UNCHANGED <<config_vars, history, log_vars, turn_vars, calls, prompts, answer>>

(***************************************************************************)
(* Gating and executing a shell command (main.rs:185-206, 242-264)         *)
(***************************************************************************)
\* dialoguer::Select::interact_opt()? and the match on the selection
AnswerSelect ==
    /\ pc = "GatingShell"
    /\ \E r \in {Ok(Some(0)), Ok(Some(1)), Ok(Some(2)), Ok(None), Err("dialoguer")} :
          IF r.ok
          THEN /\ answer' = CASE r.val = Some(0) -> "once"
                              [] r.val = Some(1) -> "always"
                              [] r.val = Some(2) -> "decline"
                              [] OTHER -> "cancel"
               /\ pc' = after_select(r.val)
               /\ allowed_commands' =
                     IF after_select(r.val) = "SavingConfig"
                     THEN add_allowed_command(allowed_commands, command)
                     ELSE allowed_commands
               /\ printed' = IF after_select(r.val) = "Recording"
                             THEN Append(printed, Msg("Komut calistirilmadi.", <<>>))
                             ELSE printed
          ELSE /\ answer' = "error"
               /\ pc' = "Failed"
               /\ allowed_commands' = allowed_commands
               /\ printed' = printed
    /\ UNCHANGED <<env, lib_call, api_type, config_file, history, log_vars, files, turn_vars,
                   calls, prompts, executed, spawned>>

\* ConfigManager::save_configuration: the whole configuration is written
save_configuration(allowed) == allowed

\* core::ConfigManager::save_configuration(&self.config)?
SaveConfig ==
    /\ pc = "SavingConfig"
    /\ \E io \in {"ok", "fail"} :
          IF io = "ok"
          THEN /\ config_file' = save_configuration(allowed_commands)
               /\ pc' = "ExecutingShell"
          ELSE /\ config_file' = config_file
               /\ pc' = "Failed"
    /\ UNCHANGED <<env, lib_call, api_type, allowed_commands, history, log_vars, files,
                   turn_vars, trace_vars>>

\* the command line is trimmed before it is given to sh
run_command_trimming(command_str, io) ==
    [result |-> IF io = "ok" THEN "Ok" ELSE "Err",
     spawned |-> IF io = "spawn_error" THEN <<>> ELSE <<trim(command_str)>>]

\* run_command: sh -c command_str; Ok(()) only when the process exits with 0
\*   spawn_error: sh could not be started; write_error: relaying the output failed
run_command(command_str, io) ==
    [result |-> IF io = "ok" THEN "Ok" ELSE "Err",
     spawned |-> IF io = "spawn_error" THEN <<>> ELSE <<command_str>>]

\* run_command(&command)?
RunCommand ==
    /\ pc = "ExecutingShell"
    /\ \E io \in {"ok", "nonzero", "spawn_error", "write_error"} :
          LET r == run_command(command, io)
          IN  /\ executed' = Append(executed,
                                    [kind |-> "shell", name |-> <<>>,
                                     params |-> command, io |-> io,
                                     result |-> r.result])
              /\ spawned' = spawned \o r.spawned
              /\ pc' = IF r.result = "Ok" THEN "Recording" ELSE "Failed"
    /\ printed' = Append(printed, Msg("Calistiriliyor", command))
    /\ UNCHANGED <<config_vars, history, log_vars, files, turn_vars, calls,
                   prompts, answer>>

(***************************************************************************)
(* Recording (main.rs:208-222)                                             *)
(***************************************************************************)
\* CommandHistoryManager::save_history: the text written to history.txt
save_history(h) == join(h, <<"\n">>)

\* CommandHistoryManager::add_command: push, then save_history
\* command_history_manager.add_command(input)?, then the two history pushes
Record ==
    /\ pc = "Recording"
    /\ cmd_history' = Append(cmd_history, input)
    /\ \E io \in {"ok", "fail"} :
          IF io = "ok"
          THEN /\ history_file' = save_history(cmd_history')
               /\ history' = push_turn(history, input, command)
               /\ pc' = "AwaitingInput"
          ELSE /\ history_file' = history_file
               /\ history' = history
               /\ pc' = "Failed"
    /\ UNCHANGED <<config_vars, files, turn_vars, trace_vars>>

Next ==
    \/ ReadInput
    \/ ReadExit
    \/ ReadEmpty
    \/ ReadFailure
    \/ Generate
    \/ Interpret
    \/ AnswerConfirm
    \/ ExecuteTool
    \/ AnswerSelect
    \/ SaveConfig
    \/ RunCommand
    \/ Record

Spec == Init /\ [][Next]_vars

(***************************************************************************)
(* Sessions of MaxToolTurns turns in which the backend may generate any of *)
(* AllReplies: every registered tool is called.                            *)
(***************************************************************************)
ReadInputFew == ReadInputFrom(FewLines, MaxToolTurns)
GenerateAny == GenerateFrom(AllReplies)

NextAllTools ==
    \/ ReadInputFew
    \/ ReadExit
    \/ ReadEmpty
    \/ ReadFailure
    \/ GenerateAny
    \/ Interpret
    \/ AnswerConfirm
    \/ ExecuteTool
    \/ AnswerSelect
    \/ SaveConfig
    \/ RunCommand
    \/ Record

SpecAllTools == Init /\ [][NextAllTools]_vars

\* the turns of the sessions in which what a turn awaits returns
ReadInputLive == ReadInputFrom(FewLines, MaxLiveTurns)

\* the steps of a turn after its input is read: each awaits a backend call, a
\* prompt, a tool, a process or a write, or is straight-line code
TurnStep ==
    \/ Generate
    \/ Interpret
    \/ AnswerConfirm
    \/ ExecuteTool
    \/ AnswerSelect
    \/ SaveConfig
    \/ RunCommand
    \/ Record

NextLive ==
    \/ ReadInputLive
    \/ ReadExit
    \/ ReadEmpty
    \/ ReadFailure
    \/ TurnStep

\* the sessions in which everything a turn awaits returns eventually
SpecLive == Init /\ [][NextLive]_vars /\ WF_vars(TurnStep)

(***************************************************************************)
(* Startup: main, ShellmindCLI::new and the beginning of start             *)
(* (main.rs:22-88, 236-240).  env is what the process finds:               *)
(*   config      "ok" | "invalid": the configuration sources build and     *)
(*               deserialize, or not                                       *)
(*   api_key     the api_key the sources give (empty when none is set)     *)
(*   context_window_size  the context_window_size they give (default 8)    *)
(*   history_dir "ok" | "no_home" | "create_failed"                        *)
(*   history_txt "absent" | "readable" | "unreadable"                      *)
(*   editor      "ok" | "fail": rustyline's Editor::new                    *)
(*   args        the number of process arguments (1: the program name)     *)
(***************************************************************************)
Envs ==
    [config : {"ok", "invalid"}, api_key : {<<>>, <<"k">>},
     context_window_size : {1, 8},
     history_dir : {"ok", "no_home", "create_failed"},
     history_txt : {"absent", "readable", "unreadable"},
     editor : {"ok", "fail"}, args : {1, 2}]

\* the text a history.txt left by an earlier session holds
PriorLogs == { <<"l","s","\n","h","i">> }

\* str::lines: the lines of a text, without their "\n" or "\r\n"; a final
\* empty line is not a line
RECURSIVE lines(_)
lines(text) ==
    IF text = <<>> THEN <<>>
    ELSE LET ends == {i \in 1..Len(text) : text[i] = "\n"}
             cut == IF ends = {} THEN Len(text) + 1
                    ELSE CHOOSE i \in ends : \A j \in ends : i <= j
             raw == SubSeq(text, 1, cut - 1)
             line == IF cut <= Len(text) /\ raw # <<>> /\ raw[Len(raw)] = "\r"
                     THEN SubSeq(raw, 1, Len(raw) - 1) ELSE raw
         IN  <<line>> \o lines(SubSeq(text, cut + 1, Len(text)))

\* ConfigManager::load_configuration
load_configuration(e) ==
    IF e.config = "invalid" THEN Err("Config")
    ELSE Ok([api_key |-> e.api_key, context_window_size |-> e.context_window_size])

\* an empty key passes
validate_configuration_accepting_empty_key(config) ==
    Ok(TRUE)

\* ConfigManager::validate_configuration
validate_configuration(config) ==
    IF config.api_key = <<>> THEN Err("Other") ELSE Ok(TRUE)

\* CommandHistoryManager::new: the history read from history.txt
CommandHistoryManager_new(e, file_text) ==
    IF e.history_dir = "no_home" THEN Err("Other")
    ELSE IF e.history_dir = "create_failed" THEN Err("Other")
    ELSE IF e.history_txt = "absent" THEN Ok(<<>>)
    ELSE IF e.history_txt = "unreadable" THEN Err("Other")
    ELSE Ok(lines(file_text))

\* CLIInterface::new
CLIInterface_new(e) ==
    IF e.editor = "fail" THEN Err("Readline") ELSE Ok(TRUE)

\* ShellmindCLI::new: each step's error is returned with ?
ShellmindCLI_new(e, file_text) ==
    LET config == load_configuration(e)
    IN  IF ~config.ok THEN config
        ELSE IF ~validate_configuration(config.val).ok
             THEN validate_configuration(config.val)
        ELSE LET command_history_manager == CommandHistoryManager_new(e, file_text)
             IN  IF ~command_history_manager.ok THEN command_history_manager
                 ELSE IF ~CLIInterface_new(e).ok THEN CLIInterface_new(e)
                 ELSE Ok([history |-> command_history_manager.val])

\* the process starts: nothing is constructed yet
InitStartup ==
    /\ pc = "Starting"
    /\ env \in Envs
    /\ lib_call = NoCall
    /\ api_type \in {"Rest", "Grpc"}
    /\ allowed_commands \in InitialAllowLists
    /\ config_file = allowed_commands
    /\ history = <<>>
    /\ cmd_history = <<>>
    /\ history_file \in (IF env.history_txt = "absent" THEN {<<>>} ELSE PriorLogs)
    /\ files = [p \in Paths |-> NoFile]
    /\ input = <<>>
    /\ command = <<>>
    /\ turns = 0
    /\ calls = <<>>
    /\ prompts = <<>>
    /\ answer = "none"
    /\ executed = <<>>
    /\ spawned = <<>>
    /\ printed = <<>>

\* let mut cli = ShellmindCLI::new().await?;
New ==
    /\ pc = "Starting"
    /\ LET cli == ShellmindCLI_new(env, history_file)
       IN  IF cli.ok
           THEN /\ cmd_history' = cli.val.history
                /\ printed' = printed
                /\ pc' = "Constructed"
           ELSE /\ cmd_history' = cmd_history
                /\ printed' = Append(printed, Msg("Error", <<>>))
                /\ pc' = "Aborted"
    /\ UNCHANGED <<config_vars, history, history_file, files, turn_vars, calls,
                   prompts, answer, executed, spawned>>

\* cli.start(): without arguments, the banner and the initial history
Start ==
    /\ pc = "Constructed"
    /\ ~(env.args > 1)
    /\ history' = InitialHistory
    /\ printed' = Append(printed, Msg("Shellmind is initialized. Type 'exit' to quit.", <<>>))
    /\ pc' = "AwaitingInput"
    /\ UNCHANGED <<config_vars, log_vars, files, turn_vars, calls, prompts,
                   answer, executed, spawned>>

\* cli.start() with arguments: Cli::run(args, &self.ui).await?; return Ok(())
\* (cli/src/lib.rs:44-112)
Cli_run ==
    /\ pc = "Constructed"
    /\ env.args > 1
    /\ \E sub \in {"Version", "ConfigShow", "ConfigSet", "Prompt"} :
          CASE sub \in {"Version", "ConfigShow"} ->
                  /\ printed' = Append(printed, Msg(sub, <<>>))
                  /\ pc' = "Exited"
                  /\ UNCHANGED <<config_file, calls>>
            [] sub = "ConfigSet" ->
                  \E io \in {"ok", "fail", "invalid"} :
                     /\ config_file' = IF io = "ok"
                                       THEN save_configuration(allowed_commands)
                                       ELSE config_file
                     /\ printed' = IF io = "ok"
                                   THEN Append(printed,
                                               Msg("Configuration updated successfully.", <<>>))
                                   ELSE printed
                     /\ pc' = IF io = "ok" THEN "Exited" ELSE "Failed"
                     /\ calls' = calls
            [] sub = "Prompt" ->
                  \E response \in ResponsesFor(api_type, {c_ls}) :
                     LET result == generate(api_type, response)
                     IN  /\ calls' = Append(calls,
                                            CallRecord(api_type,
                                                       request_contents(
                                                          [context_window_size |->
                                                              env.context_window_size],
                                                          c_ls, <<>>),
                                                       response))
                         /\ printed' = Append(printed,
                                              IF result.ok
                                              THEN Msg("print_command", result.val)
                                              ELSE Msg("Error generating command", <<>>))
                         /\ pc' = "Exited"
                         /\ config_file' = config_file
    /\ UNCHANGED <<env, lib_call, api_type, allowed_commands, history, log_vars, files,
                   turn_vars, prompts, answer, executed, spawned>>

NextStartup ==
    \/ New
    \/ Start
    \/ Cli_run
    \/ ReadInputFew
    \/ ReadExit
    \/ ReadEmpty
    \/ ReadFailure
    \/ GenerateAny
    \/ Interpret
    \/ AnswerConfirm
    \/ ExecuteTool
    \/ AnswerSelect
    \/ SaveConfig
    \/ RunCommand
    \/ Record

SpecStartup == InitStartup /\ [][NextStartup]_vars

(***************************************************************************)
(* Direct calls of the operations of the core crate (BaseTool,             *)
(* ToolRegistry, ConfigManager, CommandHistoryManager), each with the      *)
(* arguments a caller may give it: pc is "Library" before the call and     *)
(* "Returned" after it.                                                    *)
(***************************************************************************)
\* the tools ShellmindCLI::new registers
Tools ==
    {ReadFileTool, WriteFileTool, EditTool, LSTool, GrepTool, GlobTool, ShellTool,
     WebFetchTool, WebSearchTool, MemoryTool, ReadManyFilesTool}

\* the argument spans of this model
ArgSpans ==
    <<a_path_dot, a_path_x, a_write, a_edit, a_pattern, a_command, a_url, a_query,
      a_fact, a_paths, a_paths_num, a_empty_obj, a_oops>>

\* parameter values: what the spans parse to, members of the wrong type,
\* and values that are not objects
ParamValues ==
    [i \in DOMAIN ArgSpans |-> parse_params(ArgSpans[i])]
      \o <<JObj([path |-> JNum(1)]), JObj([command |-> JNum(1)]),
            JObj([paths |-> JStr(p_x)]), JStr(c_ls), JNum(1), JArr(<<>>)>>

\* Option<Signal>: no signal stream, or one on which a signal is raised
\* during the call or not
Signals == {None, Some("quiet"), Some("raised")}

InitCalls ==
    /\ pc = "Library"
    /\ env = GoodEnv
    /\ lib_call = NoCall
    /\ api_type \in {"Rest", "Grpc"}
    /\ allowed_commands \in InitialAllowLists
    /\ config_file = allowed_commands
    /\ history = InitialHistory
    /\ cmd_history = <<>>
    /\ history_file = <<>>
    /\ files \in {[p \in Paths |-> NoFile], [p \in Paths |-> File(t_y)]}
    /\ input = <<>>
    /\ command = <<>>
    /\ turns = 0
    /\ calls = <<>>
    /\ prompts = <<>>
    /\ answer = "none"
    /\ executed = <<>>
    /\ spawned = <<>>
    /\ printed = <<>>

\* a file name that is not valid UTF-8 is an element "0xFE" or "0xFF"
EntryNames ==
    { <<"a">>, <<"b">>, <<"B">>, <<"a","b">>, <<"0xFE">>, <<"0xFF">> }

\* the entries of a directory, in the order read_dir yields them: at most
\* MaxEntries entries, no name twice
Directories ==
    { d \in UNION { [1..n -> EntryNames] : n \in 0..MaxEntries } :
        \A i, j \in DOMAIN d : i # j => d[i] # d[j] }

\* tool.execute(params, signal).await; the directory a successful
\* list_directory reads is any of Directories
CallExecute ==
    /\ pc = "Library"
    /\ \E tool \in Tools, p \in DOMAIN ParamValues, signal \in Signals :
          \E io \in IoOutcomes(tool) :
             LET params == ParamValues[p]
                 r == execute(tool, params, signal, io, files)
                 lists == tool = LSTool /\ r.result = "Success"
             IN  /\ \E dir \in (IF lists THEN Directories ELSE {<<>>}) :
                       lib_call' = [op |-> "execute", tool |-> tool.name,
                                    params |-> params, signal |-> signal, io |-> io,
                                    result |-> r.result, spawned |-> r.spawned,
                                    dir |-> dir,
                                    output |-> IF lists THEN LSTool_output(dir)
                                               ELSE <<>>]
                 /\ files' = r.files
    /\ pc' = "Returned"
    /\ UNCHANGED <<env, api_type, allowed_commands, config_file, history,
                   log_vars, turn_vars, trace_vars>>

\* BaseTool::validate_tool_params: the required members are there and have
\* the type checked (tools.rs:38, 98, 166, 238, 309, 402, 477, 551, 616, 672,
\* 728)
validate_tool_params(tool, params) ==
    CASE tool.struct \in {"ReadFileTool", "LSTool"} ->
            and_then_as_str(get(params, "path")).some
      [] tool.struct = "WriteFileTool" ->
            /\ and_then_as_str(get(params, "path")).some
            /\ and_then_as_str(get(params, "content")).some
      [] tool.struct = "EditTool" ->
            /\ and_then_as_str(get(params, "file_path")).some
            /\ and_then_as_str(get(params, "old_string")).some
            /\ and_then_as_str(get(params, "new_string")).some
      [] tool.struct \in {"GrepTool", "GlobTool"} ->
            and_then_as_str(get(params, "pattern")).some
      [] tool.struct = "ShellTool" -> and_then_as_str(get(params, "command")).some
      [] tool.struct = "WebFetchTool" -> and_then_as_str(get(params, "url")).some
      [] tool.struct = "WebSearchTool" -> and_then_as_str(get(params, "query")).some
      [] tool.struct = "MemoryTool" -> and_then_as_str(get(params, "fact")).some
      [] tool.struct = "ReadManyFilesTool" ->
            and_then_as_array(get(params, "paths")).some

\* tool.validate_tool_params(&params)
CallValidateToolParams ==
    /\ pc = "Library"
    /\ \E tool \in Tools, p \in DOMAIN ParamValues :
          lib_call' = [op |-> "validate_tool_params", tool |-> tool.name,
                       params |-> ParamValues[p],
                       result |-> validate_tool_params(tool, ParamValues[p])]
    /\ pc' = "Returned"
    /\ UNCHANGED <<env, api_type, allowed_commands, config_file, history,
                   log_vars, files, turn_vars, trace_vars>>

\* tool.should_confirm_execute(&params)
CallShouldConfirm ==
    /\ pc = "Library"
    /\ \E tool \in Tools, p \in DOMAIN ParamValues :
          lib_call' = [op |-> "should_confirm_execute", tool |-> tool.name,
                       params |-> ParamValues[p],
                       result |-> should_confirm_execute(tool, ParamValues[p])]
    /\ pc' = "Returned"
    /\ UNCHANGED <<env, api_type, allowed_commands, config_file, history,
                   log_vars, files, turn_vars, trace_vars>>

\* another implementation of BaseTool whose name() is "read_file"
OtherReadFileTool ==
    [struct |-> "OtherReadFileTool", name |-> n_read_file, display_name |-> "Other Read File"]

\* tools given to register
Registrable == {ReadFileTool, LSTool, OtherReadFileTool}

\* registry.register(tool) on a registry made by ToolRegistry::new: the
\* registry and the tools registered so far, in order
CallRegister ==
    /\ pc \in {"Library", "Registering"}
    /\ LET tools == IF pc = "Library" THEN ToolRegistry_new ELSE lib_call.registry
           log == IF pc = "Library" THEN <<>> ELSE lib_call.log
       IN  /\ Len(log) < MaxRegistered
           /\ \E tool \in Registrable :
                 lib_call' = [op |-> "register", registry |-> register(tools, tool),
                              log |-> Append(log, tool)]
    /\ pc' = "Registering"
    /\ UNCHANGED <<env, api_type, allowed_commands, config_file, history,
                   log_vars, files, turn_vars, trace_vars>>

\* registry.get_tool(name)
CallGetTool ==
    /\ pc \in {"Library", "Registering"}
    /\ LET tools == IF pc = "Library" THEN ToolRegistry_new ELSE lib_call.registry
           log == IF pc = "Library" THEN <<>> ELSE lib_call.log
       IN  \E name \in {n_read_file, n_list_directory, n_frobnicate} :
              lib_call' = [op |-> "get_tool", registry |-> tools, log |-> log,
                           name |-> name, result |-> get_tool(tools, name)]
    /\ pc' = "Returned"
    /\ UNCHANGED <<env, api_type, allowed_commands, config_file, history,
                   log_vars, files, turn_vars, trace_vars>>

NextCalls ==
    \/ CallExecute
    \/ CallValidateToolParams
    \/ CallShouldConfirm
    \/ CallRegister
    \/ CallGetTool

SpecCalls == InitCalls /\ [][NextCalls]_vars

(***************************************************************************)
(* Properties                                                              *)
(***************************************************************************)
\* the names the tools are registered under, by confirmation policy
ConfirmNames == {n_write_file, n_edit_file, n_run_shell_command}
NoConfirmNames ==
    {n_read_file, n_list_directory, n_search_file_content, n_glob, n_web_fetch,
     n_google_web_search, n_save_memory, n_read_many_files}
RegisteredNames == ConfirmNames \cup NoConfirmNames

IsPrefix(a, b) == Len(a) <= Len(b) /\ SubSeq(b, 1, Len(a)) = a
Printed(m, arg) == \E i \in 1..Len(printed) : printed[i] = Msg(m, arg)
PrintedKind(m) == \E i \in 1..Len(printed) : printed[i].msg = m
\* the backend call of this turn has returned a text / has failed
HasReply == calls # <<>> /\ calls[Len(calls)].response = "body"
LastCallFailed == calls # <<>> /\ calls[Len(calls)].response # "body"
\* the reply of this turn has been classified
Classified == HasReply /\ pc # "Interpreting"
HasNewline(s) == \E i \in 1..Len(s) : s[i] = "\n"
SingleLine == ~HasNewline(command)
Cap == tool_call_regex_captures(command)
\* the gate of this turn ended in Denied
Denied == answer \in {"no", "decline", "cancel"}
\* the last two turns of the history are this turn's input and suggestion
TurnRecorded ==
    /\ Len(history) >= 4
    /\ history[Len(history) - 1] = GeminiContent("user", input)
    /\ history[Len(history)] = GeminiContent("model", command)
OnlySelectPrompt == Len(prompts) = 1 /\ prompts[1].kind = "Select"
OnlyConfirmPrompt == Len(prompts) = 1 /\ prompts[1].kind = "Confirm"

\* C1: a tool whose confirmation policy is Some (write_file, edit_file,
\* run_shell_command) is executed in a turn only after the answer yes to that
\* turn's confirmation prompt; after the answer no, execute is not called,
\* no shell is spawned and the files stay as they are.
C1_ConfirmedToolNeedsYes ==
    /\ [](\A i \in 1..Len(executed) :
            (executed[i].kind = "tool" /\ executed[i].name \in ConfirmNames)
                => (answer = "yes" /\ OnlyConfirmPrompt))
    /\ [](answer = "no" => executed = <<>> /\ spawned = <<>>)
    /\ [][answer = "no" =>
            (files' = files /\ executed' = <<>> /\ spawned' = <<>>)]_vars

C1_Witness ==
    /\ command = Call(n_write_file, a_write)
    /\ answer = "no"
    /\ pc = "AwaitingInput"
    /\ ~files[p_x].present

\* C2: when the gate ends in Denied, nothing is executed and the turn is
\* still recorded: once the turn is over the session is in AwaitingInput and
\* the history ends with {user, input}, {model, suggestion}.
C2_DeniedTurnIsRecorded ==
    (Denied /\ pc # "Recording") =>
        /\ executed = <<>>
        /\ spawned = <<>>
        /\ pc = "AwaitingInput"
        /\ TurnRecorded

\* C3: a reply that contains a newline is an informational message: no
\* prompt is shown, no tool and no shell command is executed, nothing but the
\* history changes, also when the text names a registered tool.
C3_NewlineIsInformational ==
    /\ [](HasNewline(command) =>
            /\ pc \in {"Interpreting", "AwaitingInput"}
            /\ prompts = <<>>
            /\ answer = "none"
            /\ executed = <<>>
            /\ spawned = <<>>
            /\ (pc = "AwaitingInput" => TurnRecorded))
    /\ [][HasNewline(command) =>
            /\ files' = files
            /\ allowed_commands' = allowed_commands
            /\ config_file' = config_file
            /\ prompts' = <<>>
            /\ executed' = <<>>
            /\ spawned' = <<>>]_vars

C3_Witness ==
    /\ command = Call(n_write_file, a_write) \o <<"\n">>
    /\ pc = "AwaitingInput"
    /\ TurnRecorded
    /\ ~files[p_x].present

\* C4: a single-line reply of the form name(arguments) is dispatched to the
\* tool registered under exactly that name; when no tool has the name,
\* "Unknown tool" is reported, nothing is executed and no shell prompt is
\* shown.
C4_ToolCallDispatch ==
    (Classified /\ SingleLine /\ Cap.some) =>
        IF Cap.val.tool_name \in RegisteredNames
        THEN /\ \A i \in 1..Len(executed) :
                  /\ executed[i].kind = "tool"
                  /\ executed[i].name = Cap.val.tool_name
             /\ \A i \in 1..Len(prompts) : prompts[i].kind = "Confirm"
             /\ ~PrintedKind("Unknown tool")
             /\ (pc \in {"Recording", "AwaitingInput"} /\ answer \in {"none", "yes"})
                    => Len(executed) = 1
        ELSE /\ Printed("Unknown tool", Cap.val.tool_name)
             /\ executed = <<>>
             /\ spawned = <<>>
             /\ prompts = <<>>
             /\ pc \in {"Recording", "AwaitingInput", "Failed"}

C4_Witness ==
    /\ command = Call(n_frobnicate, a_empty_obj)
    /\ Printed("Unknown tool", n_frobnicate)
    /\ pc = "AwaitingInput"
    /\ TurnRecorded

C6_NoPromptForSafeTools ==
    /\ []((Classified /\ SingleLine /\ Cap.some
              /\ Cap.val.tool_name \in NoConfirmNames) =>
            /\ prompts = <<>>
            /\ answer = "none"
            /\ pc \in {"ExecutingTool", "Recording", "AwaitingInput", "Failed"}
            /\ (pc # "ExecutingTool" =>
                    /\ Len(executed) = 1
                    /\ executed[1].kind = "tool"
                    /\ executed[1].name = Cap.val.tool_name))
    /\ [][(pc = "Interpreting" /\ SingleLine /\ Cap.some
              /\ Cap.val.tool_name \in NoConfirmNames)
            => pc' = "ExecutingTool"]_vars

C6_Witness ==
    /\ command = Call(n_list_directory, a_path_dot)
    /\ Len(executed) = 1
    /\ executed[1].name = n_list_directory
    /\ executed[1].result = "Success"
    /\ prompts = <<>>

\* C7: under "always allow" the command string is in the allow-list and in
\* the saved configuration before the command runs.
C7_AllowListSavedBeforeRun ==
    (answer = "always" /\ (pc = "ExecutingShell" \/ executed # <<>> \/ spawned # <<>>))
        => /\ contains(allowed_commands, command)
           /\ contains(config_file, command)

C7_Witness ==
    /\ answer = "always"
    /\ command = c_rm
    /\ spawned = <<c_rm>>
    /\ config_file = <<c_rm>>

\* C8: every shell-command turn shows the three-way prompt, also when the
\* command is in the allow-list already, and a shell command runs only after
\* "run once" or "always allow" was selected in the same turn.
C8_ShellAlwaysPrompts ==
    /\ (Classified /\ SingleLine /\ ~Cap.some) => OnlySelectPrompt
    /\ \A i \in 1..Len(executed) :
          executed[i].kind = "shell" =>
              (OnlySelectPrompt /\ answer \in {"once", "always"})
    /\ (pc = "ExecutingShell") => (OnlySelectPrompt /\ answer \in {"once", "always"})

C8_Witness ==
    /\ contains(config_file, command)
    /\ contains(allowed_commands, command)
    /\ answer = "once"
    /\ OnlySelectPrompt
    /\ spawned = <<command>>

\* C9: the allow-list only grows, and only by an "always allow" decision on
\* a shell command: every step keeps the old list as a prefix, and a step
\* that changes it appends the command of an "always allow" turn.
C9_AllowListOnlyGrows ==
    [][/\ IsPrefix(allowed_commands, allowed_commands')
       /\ IsPrefix(config_file, config_file')
       /\ (allowed_commands' # allowed_commands =>
              /\ pc = "GatingShell"
              /\ answer' = "always"
              /\ allowed_commands' = Append(allowed_commands, command))
       /\ (config_file' # config_file =>
              /\ pc = "SavingConfig"
              /\ answer = "always"
              /\ config_file' = allowed_commands)]_vars

C9_Witness ==
    /\ Len(config_file) = 2
    /\ config_file = allowed_commands
    /\ config_file[1] # config_file[2]

\* C10: when the backend call fails, the error is reported, nothing is
\* executed, no prompt is shown, the history stays as it is and the session
\* is in AwaitingInput again.
C10_BackendFailureSkipsTurn ==
    /\ [](LastCallFailed =>
            /\ pc = "AwaitingInput"
            /\ PrintedKind("Error generating command")
            /\ prompts = <<>>
            /\ executed = <<>>
            /\ spawned = <<>>)
    /\ [][(pc = "Generating" /\ LastCallFailed') =>
            /\ history' = history
            /\ cmd_history' = cmd_history
            /\ history_file' = history_file
            /\ files' = files
            /\ allowed_commands' = allowed_commands
            /\ config_file' = config_file]_vars

C10_Witness ==
    /\ LastCallFailed
    /\ turns = 2
    /\ Len(history) = 4
    /\ pc = "AwaitingInput"

\* C11: every call of a tool's execute completes with a ToolResult (Success
\* or Error) and never with an error returned past the tool: a missing
\* parameter, a failed I/O operation and a nonzero exit all give Error.
C11_ExecuteNeverErrs ==
    \A i \in 1..Len(executed) :
        executed[i].kind = "tool" => executed[i].result \in {"Success", "Error"}

\* C12: when an approved shell command exits with a nonzero status, the
\* session goes on: the turn is recorded in the history and in the
\* command-history log and the session is in AwaitingInput again.
C12_NonzeroExitIsRecorded ==
    (\E i \in 1..Len(executed) :
        executed[i].kind = "shell" /\ executed[i].io = "nonzero")
      => \/ pc = "Recording"
         \/ /\ pc = "AwaitingInput"
            /\ TurnRecorded
            /\ cmd_history # <<>>
            /\ cmd_history[Len(cmd_history)] = input
            /\ history_file = save_history(cmd_history)

\* the reply of this turn calls a registered tool with an argument span that
\* is not JSON
UnparsedToolCall ==
    /\ SingleLine
    /\ Cap.some
    /\ Cap.val.tool_name \in RegisteredNames
    /\ ~from_str(Cap.val.params_str).ok

\* C13: when the argument span of a call of a registered tool is not JSON,
\* the tool is dispatched with the empty object and the turn is not aborted:
\* execute gives a ToolResult, the turn is recorded and the session is in
\* AwaitingInput again.
C13_UnparsedArgumentsDegrade ==
    (Classified /\ UnparsedToolCall) =>
        /\ \A i \in 1..Len(executed) :
              /\ executed[i].params = EmptyObject
              /\ executed[i].result \in {"Success", "Error"}
        /\ pc \in {"GatingTool", "ExecutingTool", "Recording", "AwaitingInput"}
        /\ (pc = "AwaitingInput" => TurnRecorded)

\* C14: no failure inside a turn ends the session: a failed read of a
\* confirmation answer, a failed save of the allow-list and a failed write of
\* the command-history log leave the session in the loop.
C14_PerTurnFailureIsCaught ==
    /\ pc # "Failed"
    /\ (answer = "error" => pc = "AwaitingInput")

\* the session cannot be initialized: the configuration does not load, the
\* API key is empty, or the command-history file cannot be created or read
InitFailure ==
    \/ env.config = "invalid"
    \/ env.api_key = <<>>
    \/ env.history_dir # "ok"
    \/ env.history_txt = "unreadable"

\* C15: a failure to initialize the session aborts the startup: the turn
\* loop is never entered, no backend call is made and nothing is executed.
C15_InitFailureAbortsStartup ==
    InitFailure =>
        /\ pc \in {"Starting", "Aborted"}
        /\ turns = 0
        /\ history = <<>>
        /\ calls = <<>>
        /\ prompts = <<>>
        /\ executed = <<>>
        /\ spawned = <<>>
        /\ cmd_history = <<>>

C15_Witness ==
    /\ pc = "Aborted"
    /\ env.config = "ok"
    /\ env.api_key = <<>>
    /\ env.history_dir = "ok"
    /\ env.history_txt = "readable"
    /\ env.editor = "ok"
    /\ env.args = 2

\* C16: the history is append-only: every step keeps the history it found as
\* a prefix, and every turn that is recorded adds its two entries, also when
\* they equal the two before them.
C16_HistoryAppendOnly ==
    [][/\ IsPrefix(history, history')
       /\ ((pc \in {"Interpreting", "Recording"} /\ pc' = "AwaitingInput")
              => Len(history') = Len(history) + 2)]_vars

C16_Witness ==
    /\ Len(history) = 6
    /\ history[5] = history[3]
    /\ history[6] = history[4]
    /\ pc = "AwaitingInput"

\* C17: Recording appends {user, input} and {model, suggestion} to the
\* history, the model text being the generated text, appends the input to
\* the command-history log, and leaves the session in AwaitingInput.
C17_RecordingAppendsTurn ==
    [][pc = "Recording" =>
          /\ history' = Append(Append(history, [role |-> "user", text |-> input]),
                               [role |-> "model", text |-> command])
          /\ cmd_history' = Append(cmd_history, input)
          /\ pc' = "AwaitingInput"]_vars

\* C18: a turn whose reply is an informational message appends {user, input}
\* and {model, message}, the message as generated, to the history and leaves
\* the session in AwaitingInput; the allow-list and the command-history log
\* stay as they are.
C18_InformationalTurnRecorded ==
    [][(pc = "Interpreting" /\ HasNewline(command)) =>
          /\ history' = Append(Append(history, [role |-> "user", text |-> input]),
                               [role |-> "model", text |-> command])
          /\ pc' = "AwaitingInput"
          /\ allowed_commands' = allowed_commands
          /\ config_file' = config_file
          /\ cmd_history' = cmd_history
          /\ history_file' = history_file]_vars

C18_Witness ==
    /\ pc = "AwaitingInput"
    /\ command = Call(n_write_file, a_write) \o <<"\n">>
    /\ Len(history) = 6
    /\ history[6] = [role |-> "model", text |-> command]
    /\ history[5] = [role |-> "user", text |-> input]
    /\ Len(cmd_history) = 1

\* "exit" in any letter case
IsExitToken(s) ==
    /\ Len(s) = 4
    /\ s[1] \in {"e", "E"}
    /\ s[2] \in {"x", "X"}
    /\ s[3] \in {"i", "I"}
    /\ s[4] \in {"t", "T"}

\* C19: in AwaitingInput an empty line starts no turn and changes nothing,
\* and the exit token, in any letter case, ends the session: no backend call
\* is made and nothing is recorded for either.
C19_EmptyAndExitInput ==
    /\ [](pc = "Generating" => (input # <<>> /\ ~IsExitToken(input)))
    /\ [](pc = "Exited" => calls = <<>>)
    /\ [][(pc = "AwaitingInput" /\ pc' \in {"AwaitingInput", "Exited"}) =>
            /\ calls' = <<>>
            /\ turns' = turns
            /\ history' = history
            /\ allowed_commands' = allowed_commands
            /\ config_file' = config_file
            /\ cmd_history' = cmd_history
            /\ history_file' = history_file
            /\ files' = files]_vars

C19_Witness ==
    /\ pc = "Exited"
    /\ input = <<"E","x","I","T">>
    /\ turns = 1
    /\ Len(history) = 4
    /\ calls = <<>>

\* the gate of this turn permitted the execution
GatePermitted ==
    \/ answer \in {"yes", "once", "always"}
    \/ /\ answer = "none"
       /\ prompts = <<>>
       /\ Cap.some
       /\ Cap.val.tool_name \in NoConfirmNames

\* C20: in every turn at most one action is executed, one call of a tool's
\* execute or one run of a shell command, and only after the reply of the
\* turn was classified and the gate permitted it.
C20_AtMostOneExecution ==
    /\ Len(executed) <= 1
    /\ Len(spawned) <= 1
    /\ (executed # <<>> \/ spawned # <<>> \/ pc \in {"ExecutingTool", "ExecutingShell"})
          => (Classified /\ SingleLine /\ GatePermitted)

C20_Witness ==
    /\ command = Call(n_run_shell_command, a_command)
    /\ answer = "yes"
    /\ Len(executed) = 1
    /\ executed[1].kind = "tool"
    /\ Len(spawned) = 1
    /\ pc = "AwaitingInput"

\* C21: when the cancellation signal is raised while the external command
\* of a tool is running, the command is terminated and the outcome is an
\* Error that describes the cancellation: a cancelled execution is never a
\* Success.
C21_CancelledCommandFails ==
    (/\ lib_call.op = "execute"
     /\ lib_call.signal = Some("raised")
     /\ lib_call.spawned # <<>>)
        => lib_call.result = "Error"

\* C22: the session is one sequential control flow: a loop iteration has at
\* most one backend request, one prompt and one execution, each started
\* after the one before it has returned, and a backend request starts only
\* from AwaitingInput, when the turn before it is executed and recorded.
C22_OneSequentialFlow ==
    /\ [](Len(calls) <= 1 /\ Len(prompts) <= 1 /\ Len(executed) <= 1)
    /\ [](pc = "Generating" => (calls = <<>> /\ prompts = <<>> /\ executed = <<>>))
    /\ [](pc \in {"GatingTool", "GatingShell"} =>
             (Len(calls) = 1 /\ answer = "none" /\ executed = <<>>))
    /\ [](pc \in {"ExecutingTool", "ExecutingShell"} =>
             (Len(calls) = 1 /\ executed = <<>>))
    /\ [][pc' = "Generating" => (pc = "AwaitingInput" /\ turns' = turns + 1)]_vars
    /\ [][(pc = "Recording" /\ pc' = "AwaitingInput") =>
             (Len(history') = Len(history) + 2 /\ calls' = calls)]_vars

C22_Witness ==
    /\ pc = "Generating"
    /\ turns = 2
    /\ Len(history) = 4
    /\ Len(cmd_history) = 1

\* the backend call of this turn returned a response without a first text:
\* no candidate, or a first candidate without a part
NoFirstText ==
    /\ HasReply
    /\ (calls[Len(calls)].candidates = 0 \/ calls[Len(calls)].parts = 0)

\* C23: when the response has no candidate, or a first candidate without a
\* text part, generate returns the text "No command generated" and no
\* error; the turn treats it as a shell command and shows the three-way
\* prompt.
C23_FallbackIsShellCommand ==
    NoFirstText =>
        /\ command = <<"N","o"," ","c","o","m","m","a","n","d"," ",
                       "g","e","n","e","r","a","t","e","d">>
        /\ ~PrintedKind("Error generating command")
        /\ pc \in {"Interpreting", "GatingShell", "SavingConfig", "ExecutingShell",
                    "Recording", "AwaitingInput", "Failed"}
        /\ (pc # "Interpreting" =>
               /\ OnlySelectPrompt
               /\ \A i \in 1..Len(executed) :
                     executed[i].kind = "shell" /\ executed[i].params = command)

C23_Witness ==
    /\ NoFirstText
    /\ calls[1].candidates = 0
    /\ pc = "GatingShell"
    /\ OnlySelectPrompt

\* C24: for every parameter value the confirmation policy of write_file,
\* edit_file and run_shell_command is Some(message) and that of the other
\* eight tools is None, whether the parameters are valid or not.
C24_ConfirmationPolicy ==
    lib_call.op = "should_confirm_execute" =>
        /\ lib_call.tool \in {n_write_file, n_edit_file, n_run_shell_command}
              => (lib_call.result.some /\ lib_call.result.val.message # "")
        /\ lib_call.tool \in {n_read_file, n_list_directory, n_search_file_content,
                              n_glob, n_web_fetch, n_google_web_search,
                              n_save_memory, n_read_many_files}
              => ~lib_call.result.some

C24_Witness ==
    /\ lib_call.op = "should_confirm_execute"
    /\ lib_call.tool = n_run_shell_command
    /\ lib_call.params.tag = "num"
    /\ lib_call.result.some
    /\ lib_call.result.val.arg = UnknownCommand

\* the places of the register calls that gave a tool of this name
RegisteredAt(log, name) == {i \in 1..Len(log) : log[i].name = name}

\* C25: after any sequence of register calls, get_tool(n) is the tool of the
\* last register call whose name is n, and None when there was none; the
\* registry holds one tool for each distinct name, a later registration of
\* a name replacing the earlier one.
C25_RegistryLastWins ==
    /\ lib_call.op \in {"register", "get_tool"} =>
          /\ DOMAIN lib_call.registry =
                {lib_call.log[i].name : i \in 1..Len(lib_call.log)}
          /\ \A n \in DOMAIN lib_call.registry :
                \E i \in RegisteredAt(lib_call.log, n) :
                   /\ \A j \in RegisteredAt(lib_call.log, n) : j <= i
                   /\ lib_call.registry[n] = lib_call.log[i]
    /\ lib_call.op = "get_tool" =>
          LET at == RegisteredAt(lib_call.log, lib_call.name)
          IN  IF at = {} THEN ~lib_call.result.some
              ELSE /\ lib_call.result.some
                   /\ \E i \in at :
                         /\ \A j \in at : j <= i
                         /\ lib_call.result.val = lib_call.log[i]

C25_Witness ==
    /\ lib_call.op = "get_tool"
    /\ lib_call.name = n_read_file
    /\ lib_call.log = <<ReadFileTool, OtherReadFileTool>>
    /\ lib_call.result.some
    /\ lib_call.result.val = OtherReadFileTool

\* C26: a turn issues exactly one backend call, through the REST client
\* when api_type is Rest and through the gRPC client when it is Grpc; a
\* failed call is not repeated in the turn, and the next call is made in the
\* next turn only.
C26_OneGenerateCallPerTurn ==
    /\ [](Len(calls) <= 1)
    /\ [](pc \in {"Interpreting", "GatingTool", "ExecutingTool", "GatingShell",
                   "SavingConfig", "ExecutingShell", "Recording"}
             => Len(calls) = 1)
    /\ [](\A i \in 1..Len(calls) :
             calls[i].client = (IF api_type = "Rest" THEN "generate_command_rest"
                                ELSE "generate_command_grpc"))
    /\ [][pc = "Generating" =>
             /\ Len(calls') = 1
             /\ pc' = (IF calls'[1].response = "body" THEN "Interpreting"
                       ELSE "AwaitingInput")]_vars
    /\ [][Len(calls') > Len(calls) => (pc = "Generating" /\ calls = <<>>)]_vars
    /\ [][pc' = "Generating" => (pc = "AwaitingInput" /\ turns' = turns + 1
                                    /\ input' # <<>> /\ ~IsExitToken(input'))]_vars

C26_Witness ==
    /\ api_type = "Grpc"
    /\ turns = 2
    /\ pc = "AwaitingInput"
    /\ Len(calls) = 1
    /\ calls[1].client = "generate_command_grpc"
    /\ calls[1].response = "status_error"

\* the reply of this turn is, once trimmed, a call of a registered tool
TrimmedToolCall ==
    /\ SingleLine
    /\ tool_call_regex_captures(trim(command)).some
    /\ tool_call_regex_captures(trim(command)).val.tool_name \in RegisteredNames

\* C27: the tool-call pattern is matched against the trimmed reply: a
\* single-line reply that is a call of a registered tool with spaces before
\* or after it is a tool invocation of that tool, not a shell command.
C27_PatternMatchesTrimmedText ==
    (Classified /\ TrimmedToolCall) =>
        /\ \A i \in 1..Len(prompts) : prompts[i].kind = "Confirm"
        /\ \A i \in 1..Len(executed) :
              /\ executed[i].kind = "tool"
              /\ executed[i].name = tool_call_regex_captures(trim(command)).val.tool_name
        /\ pc \notin {"GatingShell", "SavingConfig", "ExecutingShell"}

\* C28: the request of a turn holds the whole history, in order, followed by
\* the user's text as its last element, whatever context_window_size is, and
\* the backend call leaves the history as it is.
C28_RequestHoldsWholeHistory ==
    /\ []((turns >= 1 /\ calls # <<>>
              /\ (pc \in {"Interpreting", "GatingTool", "ExecutingTool", "GatingShell",
                          "SavingConfig", "ExecutingShell", "Recording"}
                    \/ LastCallFailed))
            => calls[1].contents = history \o <<[role |-> "user", text |-> input]>>)
    /\ [][pc = "Generating" =>
             /\ history' = history
             /\ calls'[1].contents = history \o <<[role |-> "user", text |-> input]>>]_vars

C28_Witness ==
    /\ env.context_window_size = 1
    /\ pc = "Recording"
    /\ Len(calls) = 1
    /\ Len(calls[1].contents) = 3
    /\ calls[1].contents[1] = [role |-> "user", text |-> system_prompt]
    /\ calls[1].contents[3] = [role |-> "user", text |-> input]

\* C29: the command-history log only grows at its end: a recorded turn adds
\* that turn's user input as the last entry and leaves the earlier entries as
\* they were, no other step changes the log, and the entries read back from
\* history.txt are the entries of the log, in the same order.
C29_LogAppendOnlyAndReloads ==
    [][/\ (pc = "Recording" /\ pc' = "AwaitingInput")
             => /\ cmd_history' = Append(cmd_history, input)
                /\ lines(history_file') = cmd_history'
       /\ (pc \notin {"Recording", "Starting"})
             => /\ cmd_history' = cmd_history
                /\ history_file' = history_file]_vars

\* number of the elements of v that are x
Occurrences(v, x) == Cardinality({i \in DOMAIN v : v[i] = x})

\* C30: list_directory never asks for confirmation, and the output of a
\* successful call has one line for each entry of the directory, holding the
\* entry's name, the lines being in ascending order and separated by line
\* feeds.
C30_ListingSortedOncePerEntry ==
    /\ (lib_call.op = "should_confirm_execute" /\ lib_call.tool = n_list_directory)
          => lib_call.result = None
    /\ (lib_call.op = "execute" /\ lib_call.tool = n_list_directory
           /\ lib_call.result = "Success")
          => LET out == lines(lib_call.output)
                 dir == lib_call.dir
             IN  /\ Len(out) = Len(dir)
                 /\ \A k \in DOMAIN dir :
                       Occurrences(out, to_string_lossy(dir[k]))
                          = Occurrences([i \in DOMAIN dir |-> to_string_lossy(dir[i])],
                                        to_string_lossy(dir[k]))
                 /\ \A i, j \in DOMAIN out : i < j => string_le(out[i], out[j])
                 /\ Occurrences(lib_call.output, "\n")
                       = (IF dir = <<>> THEN 0 ELSE Len(dir) - 1)

C30_Witness ==
    /\ lib_call.op = "execute"
    /\ lib_call.tool = n_list_directory
    /\ lib_call.result = "Success"
    /\ lib_call.dir = << <<"b">>, <<"a","b">>, <<"B">> >>
    /\ lib_call.output = <<"B","\n","a","b","\n","b">>

\* C31: a read of the user's input that fails with an interrupt or an
\* end-of-file ends the session; one that fails with any other error is
\* reported and the loop is at AwaitingInput again, with the history, the
\* allow-list and the command-history log as they were and no backend call.
C31_ReadErrorHandling ==
    [][pc = "AwaitingInput" =>
          /\ (printed' \in {<<Msg("Ctrl-C received, exiting.", <<>>)>>,
                            <<Msg("Ctrl-D received, exiting.", <<>>)>>})
                => pc' = "Exited"
          /\ (printed' = <<Msg("Error reading input", <<>>)>>)
                => /\ pc' = "AwaitingInput"
                   /\ history' = history
                   /\ allowed_commands' = allowed_commands
                   /\ config_file' = config_file
                   /\ cmd_history' = cmd_history
                   /\ history_file' = history_file
                   /\ calls' = <<>>]_vars

C31_Witness ==
    /\ pc = "AwaitingInput"
    /\ printed = <<Msg("Error reading input", <<>>)>>
    /\ turns = 1
    /\ Len(history) = 4
    /\ Len(cmd_history) = 1
    /\ calls = <<>>

\* C32: if everything a turn awaits returns, a turn that has left
\* AwaitingInput is eventually back at AwaitingInput or the session has ended:
\* no turn stays for ever in the positions between.
C32_TurnEventuallyEnds ==
    (pc \notin {"AwaitingInput", "Exited", "Failed"})
        ~> (pc \in {"AwaitingInput", "Exited", "Failed"})

C32_Witness ==
    /\ pc = "AwaitingInput"
    /\ turns = 1
    /\ Len(calls) = 1
    /\ Len(prompts) = 1
    /\ answer = "no"
    /\ printed[Len(printed)] = Msg("Tool execution cancelled.", <<>>)
    /\ Len(history) = 4

\* C33: in every state of a session the history has an even length of at
\* least 2, starts with the system prompt as a user turn and the ready reply
\* as a model turn, and its roles alternate user, model.
C33_HistoryAlternates ==
    /\ Len(history) >= 2
    /\ Len(history) % 2 = 0
    /\ history[1] = [role |-> "user", text |-> system_prompt]
    /\ history[2] = [role |-> "model", text |-> ReadyReply]
    /\ \A i \in DOMAIN history :
          history[i].role = (IF i % 2 = 1 THEN "user" ELSE "model")

C33_Witness ==
    /\ pc = "Exited"
    /\ Len(history) = 6
    /\ history[5].role = "user"
    /\ history[6].role = "model"
    /\ history[3].text # history[5].text

\* the suggestion of the turn named a tool that is not registered, and this
\* has been reported
UnknownToolReported ==
    /\ printed # <<>>
    /\ printed[Len(printed)].msg = "Unknown tool"

\* C34: a turn whose suggestion names an unregistered tool is recorded after
\* the report: the history gains {user, input} and {model, suggestion}, the
\* command-history log gains the input, and the session awaits the next input.
C34_UnknownToolTurnRecorded ==
    [][(pc = "Recording" /\ UnknownToolReported) =>
          /\ history' = Append(Append(history, [role |-> "user", text |-> input]),
                               [role |-> "model", text |-> command])
          /\ cmd_history' = Append(cmd_history, input)
          /\ lines(history_file') = cmd_history'
          /\ executed' = <<>>
          /\ pc' = "AwaitingInput"]_vars

\* C35: for every tool and every parameter value that validate_tool_params
\* accepts, execute does not fail on a parameter: with every external
\* operation succeeding it does not return Err.
C35_ValidParamsNeverRejected ==
    (lib_call.op = "execute" /\ lib_call.io = "ok")
        => \A tool \in Tools :
              (tool.name = lib_call.tool /\ validate_tool_params(tool, lib_call.params))
                  => lib_call.result # "Err"

\* C36: adding a command that the allow-list holds leaves the list as it is;
\* an "always allow" decision keeps the entries the list had, in their order,
\* and adds at most the command, at the end; the list never holds a command
\* twice.
C36_AllowListIdempotent ==
    /\ [][(pc = "GatingShell" /\ pc' = "SavingConfig") =>
             /\ (\E i \in DOMAIN allowed_commands : allowed_commands[i] = command)
                   => allowed_commands' = allowed_commands
             /\ allowed_commands' \in {allowed_commands, Append(allowed_commands, command)}
             /\ \E i \in DOMAIN allowed_commands' : allowed_commands'[i] = command]_vars
    /\ [](\A i, j \in DOMAIN allowed_commands :
             i # j => allowed_commands[i] # allowed_commands[j])

C36_Witness ==
    /\ pc = "SavingConfig"
    /\ turns = 2
    /\ answer = "always"
    /\ command = c_ls
    /\ allowed_commands = <<c_ls>>
    /\ config_file = <<c_ls>>

====
